---- MODULE Spec2Model ----
(***************************************************************************)
(* Model of the dangerous-API profiler.                                    *)
(*                                                                         *)
(* Runtime Aggregator (src/profiling_runtime.c): the static Profile Table, *)
(* profiling_log with its mutex, the constructor profiling_init and the    *)
(* exit handler write_profile_data.  Every statement that touches shared   *)
(* state is one step of the calling thread, so that the interleavings the  *)
(* mutex allows (and the ones it forbids) are visible.                     *)
(*                                                                         *)
(* Strings are sequences of one-character strings.  A char buffer of       *)
(* MAX_NAME_LEN bytes is modelled by the C string it holds (the bytes up   *)
(* to the first NUL).                                                      *)
(***************************************************************************)
EXTENDS Integers, Sequences, FiniteSets, TLC

(***************************************************************************)
(* Program constants.  The source sets MAX_ENTRIES to 1024 and             *)
(* MAX_NAME_LEN to 256 (profiling_runtime.c:14-15); the model keeps their  *)
(* roles and scales the numbers down so that a full table and an over-long *)
(* name are reachable.  Every name below is built relative to MAX_NAME_LEN.*)
(***************************************************************************)
MAX_ENTRIES == 2

MAX_NAME_LEN == 3

TOP_SITES == 10

(***************************************************************************)
(* Bounds of the model.                                                    *)
(***************************************************************************)
NumThreads == 2

MaxCalls == 4

MaxTime == 2

MaxInit == 2

\* calls that may begin after exit() has been called
MaxLateCalls == 1

Threads == 1..NumThreads

Min(x, y) == IF x < y THEN x ELSE y

(***************************************************************************)
(* The names the instrumented program passes to profiling_log.             *)
(*   Long  : MAX_NAME_LEN characters, one more than the buffer can hold    *)
(*           next to its terminating NUL.                                  *)
(***************************************************************************)
Long == [i \in 1..MAX_NAME_LEN |-> "L"]

ApiNames == {<<"s">>}

CallerNames == {<<"A">>, <<"B">>, Long}

(***************************************************************************)
(* C library functions, as far as the program uses them.                   *)
(***************************************************************************)
\* strncpy(dst, src, n) into a zero-filled buffer of more than n bytes:
\* the C string left in dst is the first n characters of src.
strncpy(src, n) == SubSeq(src, 1, Min(Len(src), n))

\* strcmp is only ever tested against 0.
strcmp(s1, s2) == IF s1 = s2 THEN 0 ELSE 1

(***************************************************************************)
(* ProfileEntry and the zero-initialised static table.  A timestamp is a   *)
(* reading of CLOCK_MONOTONIC in clock units; 0 is the zero-filled value.  *)
(***************************************************************************)
ZeroEntry ==
    [api_name |-> <<>>, caller_name |-> <<>>, count |-> 0,
     first_call |-> 0, last_call |-> 0]

Slots == 0..(MAX_ENTRIES - 1)

VARIABLES
    profile_data,   \* static ProfileEntry profile_data[MAX_ENTRIES]
    num_entries,    \* static int num_entries
    mutex,          \* profile_mutex: 0 when free, else the owning thread
    initialized,    \* static int initialized
    handlers,       \* number of functions registered with atexit
    clock,          \* last reading of CLOCK_MONOTONIC
    pc,             \* per thread: position inside profiling_log
    arg,            \* per thread: the arguments (api_name, caller_name)
    idx,            \* per thread: the local idx of profiling_log
    hpc,            \* position of the process exit / write_profile_data
    hi,             \* loop index i of write_profile_data
    total_calls,    \* local total_calls of write_profile_data
    report,         \* contents of dangerous_api_profile.json
    console,        \* summary printed to stdout
    errors,         \* messages written to stderr
    runs,           \* number of times exit() has called write_profile_data
    calls,          \* history: the calls in lock-acquisition order
    pre,            \* history: the table when the lock was last acquired
    dropped,        \* history: number of calls that took the "no space" path
    overlap,        \* history: a log call was in progress while the handler ran
    late,           \* history: number of calls begun after exit() was called
    initRuns,       \* history: number of runs of profiling_init
    M,              \* the Module the pass is run on
    input,          \* history: the Module as it was handed to the pass
    ppc,            \* position of DangerousAPIPass::run
    fi,             \* the function F of the loop of line 41 (index in M)
    bi,             \* the basic block BB of the loop of line 47
    ii,             \* the instruction I of the loop of line 48
    CallsToInstrument, \* std::vector<CallInst*> CallsToInstrument
    ri,             \* position of the loop of line 69 in CallsToInstrument
    Modified,       \* bool Modified
    diag,           \* lines written to errs()
    preserved       \* the PreservedAnalyses returned by run

runtimeVars ==
    <<profile_data, num_entries, mutex, initialized, handlers, clock, pc, arg,
      idx, hpc, hi, total_calls, report, console, errors, runs, calls, pre,
      dropped, overlap, late, initRuns>>

passVars ==
    <<M, input, ppc, fi, bi, ii, CallsToInstrument, ri, Modified, diag,
      preserved>>

vars == <<runtimeVars, passVars>>

tableVars == <<profile_data, num_entries>>

threadVars == <<pc, arg, idx>>

handlerVars == <<hpc, hi, total_calls, report, console, errors, runs>>

initVars == <<initialized, handlers, initRuns>>

\* the locals of a thread that is not inside profiling_log
NoArg == <<<<>>, <<>>>>

NoReport == [opened |-> FALSE, records |-> <<>>, total |-> -1, unique |-> -1]

NoConsole == [printed |-> FALSE, total |-> -1, unique |-> -1, lines |-> <<>>]

\* a Module with no function and no global
EmptyModule == [funcs |-> <<>>, globals |-> <<>>]

\* DangerousAPIPass::run is entered with the Module m
PassEntry(m) ==
    /\ M = m
    /\ input = m
    /\ ppc = "entry"
    /\ fi = 0
    /\ bi = 0
    /\ ii = 0
    /\ CallsToInstrument = <<>>
    /\ ri = 0
    /\ Modified = FALSE
    /\ diag = <<>>
    /\ preserved = "unset"

RuntimeInit ==
    /\ profile_data = [i \in Slots |-> ZeroEntry]
    /\ num_entries = 0
    /\ mutex = 0
    /\ initialized = 0
    /\ handlers = 0
    /\ clock = 1
    /\ pc = [t \in Threads |-> "idle"]
    /\ arg = [t \in Threads |-> NoArg]
    /\ idx = [t \in Threads |-> -1]
    /\ hpc = "running"
    /\ hi = 0
    /\ total_calls = 0
    /\ report = NoReport
    /\ console = NoConsole
    /\ errors = 0
    /\ runs = 0
    /\ calls = <<>>
    /\ pre = [pd |-> [i \in Slots |-> ZeroEntry], n |-> 0]
    /\ dropped = 0
    /\ overlap = FALSE
    /\ late = 0
    /\ initRuns = 0

\* the instrumented process: the pass is not part of it
Init == RuntimeInit /\ PassEntry(EmptyModule)

(***************************************************************************)
(* find_or_create_entry, lines 35-40: the search loop.  The stored names   *)
(* are compared with the caller's strings as they were passed.             *)
(***************************************************************************)
Matches(e, api_name, caller_name) ==
    /\ strcmp(e.api_name, api_name) = 0
    /\ strcmp(e.caller_name, caller_name) = 0

find_entry(pd, n, api_name, caller_name) ==
    LET hits == {i \in 0..(n - 1) : i \in Slots /\ Matches(pd[i], api_name, caller_name)}
    IN  IF hits = {} THEN -1
        ELSE CHOOSE i \in hits : \A j \in hits : i <= j

(***************************************************************************)
(* find_or_create_entry, lines 43-50: the entry written at index n.        *)
(***************************************************************************)
new_entry(api_name, caller_name, now) ==
    [api_name |-> strncpy(api_name, MAX_NAME_LEN - 1),
     caller_name |-> strncpy(caller_name, MAX_NAME_LEN - 1),
     count |-> 0,
     first_call |-> now,
     last_call |-> 0]

\* the capacity test off by one
has_space_off_by_one(n) == n <= MAX_ENTRIES

has_space(n) == n < MAX_ENTRIES

\* a write through profile_data[i]; the array has MAX_ENTRIES slots
store(pd, i, e) == IF i \in Slots THEN [pd EXCEPT ![i] = e] ELSE pd

(***************************************************************************)
(* The program calls profiling_log(a, c) from thread t.                    *)
(***************************************************************************)
Started == Len(calls) + Cardinality({t \in Threads : pc[t] = "lock"})

HandlerRunning == hpc \notin {"running", "done"}

Call(t) ==
    /\ pc[t] = "idle"
    /\ initRuns >= 1
    /\ Started < MaxCalls
    /\ hpc = "running" \/ late < MaxLateCalls
    /\ \E a \in ApiNames, c \in CallerNames :
          arg' = [arg EXCEPT ![t] = <<a, c>>]
    /\ pc' = [pc EXCEPT ![t] = "lock"]
    /\ overlap' = (overlap \/ hpc # "running")
    /\ late' = IF hpc = "running" THEN late ELSE late + 1
    /\ UNCHANGED <<tableVars, mutex, clock, idx, handlerVars, initVars,
                   calls, pre, dropped>>
    /\ UNCHANGED passVars

\* a lock that does not wait for its owner to release it
LockNoWait(t) ==
    /\ pc[t] = "lock"
    /\ mutex' = t
    /\ pc' = [pc EXCEPT ![t] = "search"]
    /\ calls' = Append(calls, [api |-> arg[t][1], caller |-> arg[t][2],
                               n |-> num_entries])
    /\ pre' = [pd |-> profile_data, n |-> num_entries]
    /\ UNCHANGED <<tableVars, clock, arg, idx, handlerVars, initVars,
                   dropped, overlap, late>>
    /\ UNCHANGED passVars

\* line 57: pthread_mutex_lock
Lock(t) ==
    /\ pc[t] = "lock"
    /\ mutex = 0
    /\ mutex' = t
    /\ pc' = [pc EXCEPT ![t] = "search"]
    /\ calls' = Append(calls, [api |-> arg[t][1], caller |-> arg[t][2],
                               n |-> num_entries])
    /\ pre' = [pd |-> profile_data, n |-> num_entries]
    /\ UNCHANGED <<tableVars, clock, arg, idx, handlerVars, initVars,
                   dropped, overlap, late>>
    /\ UNCHANGED passVars

\* lines 35-40
Search(t) ==
    /\ pc[t] = "search"
    /\ LET i == find_entry(profile_data, num_entries, arg[t][1], arg[t][2])
       IN  /\ idx' = [idx EXCEPT ![t] = i]
           /\ pc' = [pc EXCEPT ![t] = IF i >= 0 THEN "inc" ELSE "create"]
    /\ UNCHANGED <<tableVars, mutex, clock, arg, handlerVars, initVars,
                   calls, pre, dropped, overlap, late>>
    /\ UNCHANGED passVars

\* lines 43-52
Create(t) ==
    /\ pc[t] = "create"
    /\ IF has_space(num_entries)
       THEN \E now \in clock..MaxTime :
              /\ clock' = now
              /\ idx' = [idx EXCEPT ![t] = num_entries]
              /\ num_entries' = num_entries + 1
              /\ profile_data' = store(profile_data, num_entries,
                                       new_entry(arg[t][1], arg[t][2], now))
              /\ pc' = [pc EXCEPT ![t] = "inc"]
              /\ dropped' = dropped
       ELSE /\ idx' = [idx EXCEPT ![t] = -1]
            /\ pc' = [pc EXCEPT ![t] = "unlock"]
            /\ dropped' = dropped + 1
            /\ UNCHANGED <<tableVars, clock>>
    /\ UNCHANGED <<mutex, arg, handlerVars, initVars, calls, pre, overlap, late>>
    /\ UNCHANGED passVars

\* the increment left out
IncForgotten(t) ==
    /\ pc[t] = "inc"
    /\ pc' = [pc EXCEPT ![t] = "stamp"]
    /\ UNCHANGED <<tableVars, mutex, clock, arg, idx, handlerVars, initVars,
                   calls, pre, dropped, overlap, late>>
    /\ UNCHANGED passVars

\* the increment applied to every entry in use
IncAll(t) ==
    /\ pc[t] = "inc"
    /\ profile_data' = [i \in Slots |->
                          IF i < num_entries
                          THEN [profile_data[i] EXCEPT !.count = @ + 1]
                          ELSE profile_data[i]]
    /\ pc' = [pc EXCEPT ![t] = "stamp"]
    /\ UNCHANGED <<num_entries, mutex, clock, arg, idx, handlerVars, initVars,
                   calls, pre, dropped, overlap, late>>
    /\ UNCHANGED passVars

\* line 61
Inc(t) ==
    /\ pc[t] = "inc"
    /\ profile_data' = store(profile_data, idx[t],
                             [profile_data[idx[t]] EXCEPT !.count = @ + 1])
    /\ pc' = [pc EXCEPT ![t] = "stamp"]
    /\ UNCHANGED <<num_entries, mutex, clock, arg, idx, handlerVars, initVars,
                   calls, pre, dropped, overlap, late>>
    /\ UNCHANGED passVars

\* the timestamp written to both fields of the entry
StampBoth(t) ==
    /\ pc[t] = "stamp"
    /\ \E now \in clock..MaxTime :
          /\ clock' = now
          /\ profile_data' = store(profile_data, idx[t],
                                   [profile_data[idx[t]] EXCEPT !.last_call = now,
                                                                !.first_call = now])
    /\ pc' = [pc EXCEPT ![t] = "unlock"]
    /\ UNCHANGED <<num_entries, mutex, arg, idx, handlerVars, initVars,
                   calls, pre, dropped, overlap, late>>
    /\ UNCHANGED passVars

\* line 62
Stamp(t) ==
    /\ pc[t] = "stamp"
    /\ \E now \in clock..MaxTime :
          /\ clock' = now
          /\ profile_data' = store(profile_data, idx[t],
                                   [profile_data[idx[t]] EXCEPT !.last_call = now])
    /\ pc' = [pc EXCEPT ![t] = "unlock"]
    /\ UNCHANGED <<num_entries, mutex, arg, idx, handlerVars, initVars,
                   calls, pre, dropped, overlap, late>>
    /\ UNCHANGED passVars

\* a return that leaves the mutex locked
ReturnLocked(t) ==
    /\ pc[t] = "unlock"
    /\ pc' = [pc EXCEPT ![t] = "idle"]
    /\ arg' = [arg EXCEPT ![t] = NoArg]
    /\ idx' = [idx EXCEPT ![t] = -1]
    /\ UNCHANGED <<tableVars, mutex, clock, handlerVars, initVars,
                   calls, pre, dropped, overlap, late>>
    /\ UNCHANGED passVars

\* line 65: pthread_mutex_unlock, then return
Unlock(t) ==
    /\ pc[t] = "unlock"
    /\ mutex' = 0
    /\ pc' = [pc EXCEPT ![t] = "idle"]
    /\ arg' = [arg EXCEPT ![t] = NoArg]
    /\ idx' = [idx EXCEPT ![t] = -1]
    /\ UNCHANGED <<tableVars, clock, handlerVars, initVars,
                   calls, pre, dropped, overlap, late>>
    /\ UNCHANGED passVars

LogStep(t) ==
    Lock(t) \/ Search(t) \/ Create(t) \/ Inc(t) \/ Stamp(t) \/ Unlock(t)

(***************************************************************************)
(* profiling_init, lines 131-137: the library constructor.  It runs while  *)
(* the program is loaded, before any instrumented code.                    *)
(***************************************************************************)
\* the constructor without its initialized test
profiling_init_unguarded ==
    /\ hpc = "running"
    /\ Started = 0
    /\ initRuns < MaxInit
    /\ initRuns' = initRuns + 1
    /\ handlers' = handlers + 1
    /\ initialized' = 1
    /\ UNCHANGED <<tableVars, mutex, clock, threadVars, handlerVars,
                   calls, pre, dropped, overlap, late>>
    /\ UNCHANGED passVars

profiling_init ==
    /\ hpc = "running"
    /\ Started = 0
    /\ initRuns < MaxInit
    /\ initRuns' = initRuns + 1
    /\ IF initialized = 0
       THEN /\ handlers' = handlers + 1
            /\ initialized' = 1
       ELSE UNCHANGED <<handlers, initialized>>
    /\ UNCHANGED <<tableVars, mutex, clock, threadVars, handlerVars,
                   calls, pre, dropped, overlap, late>>
    /\ UNCHANGED passVars

(***************************************************************************)
(* Normal process termination: exit() runs the functions registered with   *)
(* atexit.  Other threads keep running while it does.                      *)
(***************************************************************************)
Exit ==
    /\ hpc = "running"
    /\ initRuns >= 1
    /\ hpc' = IF handlers > 0 THEN "open" ELSE "done"
    /\ overlap' = (overlap \/ \E t \in Threads : pc[t] # "idle")
    /\ UNCHANGED <<tableVars, mutex, clock, threadVars, hi, total_calls,
                   report, console, errors, runs, initVars, calls, pre,
                   dropped, late>>
    /\ UNCHANGED passVars

\* time_diff_ms, lines 69-72, in clock units
time_diff_ms(start, end) == end - start

\* "%.2f" of count * 100.0 / total, as a number of hundredths
Percentage(count, total) ==
    IF total > 0 THEN (count * 20000 + total) \div (2 * total) ELSE 0

\* exit() calls the next registered function, or is done with them
AfterHandler(n) == IF n < handlers THEN "open" ELSE "done"

\* a failed fopen that is reported but not returned from
OpenNoReturn ==
    /\ hpc = "open"
    /\ runs' = runs + 1
    /\ \E ok \in BOOLEAN :
          /\ errors' = IF ok THEN errors ELSE errors + 1
          /\ report' = [NoReport EXCEPT !.opened = TRUE]
          /\ hpc' = "total"
    /\ hi' = 0
    /\ total_calls' = 0
    /\ UNCHANGED <<tableVars, mutex, clock, threadVars, console, initVars,
                   calls, pre, dropped, overlap, late>>
    /\ UNCHANGED passVars

\* lines 76-83: fopen, and the header on success
Open ==
    /\ hpc = "open"
    /\ runs' = runs + 1
    /\ \E ok \in BOOLEAN :
          IF ok
          THEN /\ report' = [NoReport EXCEPT !.opened = TRUE]
               /\ hpc' = "total"
               /\ errors' = errors
          ELSE /\ errors' = errors + 1
               /\ hpc' = AfterHandler(runs + 1)
               /\ report' = report
    /\ hi' = 0
    /\ total_calls' = 0
    /\ UNCHANGED <<tableVars, mutex, clock, threadVars, console, initVars,
                   calls, pre, dropped, overlap, late>>
    /\ UNCHANGED passVars

\* lines 85-88: one iteration of the summing loop, or its exit
Total ==
    /\ hpc = "total"
    /\ IF hi < num_entries
       THEN /\ total_calls' = total_calls + profile_data[hi].count
            /\ hi' = hi + 1
            /\ hpc' = hpc
       ELSE /\ hi' = 0
            /\ hpc' = "records"
            /\ total_calls' = total_calls
    /\ UNCHANGED <<tableVars, mutex, clock, threadVars, report, console,
                   errors, runs, initVars, calls, pre, dropped, overlap, late>>
    /\ UNCHANGED passVars

record_of(e, total) ==
    [api_name |-> e.api_name,
     caller_function |-> e.caller_name,
     execution_count |-> e.count,
     percentage_of_total |-> Percentage(e.count, total),
     duration_ms |-> time_diff_ms(e.first_call, e.last_call)]

\* lines 90-103: one iteration of the record loop, or its exit
Records ==
    /\ hpc = "records"
    /\ IF hi < num_entries
       THEN /\ report' = [report EXCEPT !.records =
                             Append(@, record_of(profile_data[hi], total_calls))]
            /\ hi' = hi + 1
            /\ hpc' = hpc
       ELSE /\ hpc' = "summary"
            /\ UNCHANGED <<report, hi>>
    /\ UNCHANGED <<tableVars, mutex, clock, threadVars, total_calls, console,
                   errors, runs, initVars, calls, pre, dropped, overlap, late>>
    /\ UNCHANGED passVars

\* lines 105-112: the summary object, fclose
Summary ==
    /\ hpc = "summary"
    /\ report' = [report EXCEPT !.total = total_calls, !.unique = num_entries]
    /\ hpc' = "console"
    /\ UNCHANGED <<tableVars, mutex, clock, threadVars, hi, total_calls,
                   console, errors, runs, initVars, calls, pre, dropped,
                   overlap, late>>
    /\ UNCHANGED passVars

\* what "%.1f" prints for a double divided by 0.0: inf or nan
NotANumber == -1

\* "%.1f" of count * 100.0 / total (line 126, no test of total), as a
\* number of tenths
ConsolePercentage(count, total) ==
    IF total = 0 THEN NotANumber
    ELSE (count * 2000 + total) \div (2 * total)

\* lines 115-127: the console summary
Console ==
    /\ hpc = "console"
    /\ console' =
          [printed |-> TRUE, total |-> total_calls, unique |-> num_entries,
           lines |-> [i \in 1..Min(num_entries, TOP_SITES) |->
                        [caller |-> profile_data[i - 1].caller_name,
                         api |-> profile_data[i - 1].api_name,
                         count |-> profile_data[i - 1].count,
                         pct |-> ConsolePercentage(profile_data[i - 1].count,
                                                   total_calls)]]]
    /\ hpc' = AfterHandler(runs)
    /\ UNCHANGED <<tableVars, mutex, clock, threadVars, hi, total_calls,
                   report, errors, runs, initVars, calls, pre, dropped,
                   overlap, late>>
    /\ UNCHANGED passVars

write_profile_data == Open \/ Total \/ Records \/ Summary \/ Console

(***************************************************************************)
(* The running program: the constructor, then threads calling              *)
(* profiling_log.                                                          *)
(***************************************************************************)
Next ==
    \/ \E t \in Threads : Call(t) \/ LogStep(t)
    \/ profiling_init

Spec == Init /\ [][Next]_vars

\* The scheduler runs every thread that can take a step.
FairSpec == Spec /\ \A t \in Threads : WF_vars(LogStep(t))

(***************************************************************************)
(* The program together with its termination: exit() may be called at any  *)
(* moment, and the handler runs next to the threads still logging.         *)
(***************************************************************************)
ExitNext ==
    \/ Next
    \/ Exit
    \/ write_profile_data

ExitSpec == Init /\ [][ExitNext]_vars

(***************************************************************************)
(* profiling_log, lines 56-66, run from the table (pd, n) with no other    *)
(* thread in between: the search, the creation or the drop, the increment  *)
(* and the timestamp.  t1 and t2 are the two clock readings.               *)
(***************************************************************************)
profiling_log(pd, n, api_name, caller_name, t1, t2) ==
    LET i == find_entry(pd, n, api_name, caller_name)
    IN  IF i >= 0
        THEN [pd |-> store(pd, i, [pd[i] EXCEPT !.count = @ + 1, !.last_call = t2]),
              n |-> n]
        ELSE IF has_space(n)
        THEN [pd |-> store(pd, n, [new_entry(api_name, caller_name, t1)
                                     EXCEPT !.count = @ + 1, !.last_call = t2]),
              n |-> n + 1]
        ELSE [pd |-> pd, n |-> n]

(***************************************************************************)
(* Vocabulary of the properties.                                           *)
(***************************************************************************)
Used == 0..(num_entries - 1)

KeyOf(e) == <<e.api_name, e.caller_name>>

\* the key a pair of names has once each name is cut to the stored length
TruncKey(k) == <<strncpy(k[1], MAX_NAME_LEN - 1), strncpy(k[2], MAX_NAME_LEN - 1)>>

CallKey(c) == TruncKey(<<c.api, c.caller>>)

InputKeys == ApiNames \X CallerNames

AllIdle == \A t \in Threads : pc[t] = "idle"

InSection(t) == pc[t] \in {"search", "create", "inc", "stamp", "unlock"}

\* the calls of the history made for key k, as positions of the history
CallsFor(k) == {j \in 1..Len(calls) : CallKey(calls[j]) = TruncKey(k)}

EntriesFor(k) == {i \in Used : KeyOf(profile_data[i]) = TruncKey(k)}

\* the keys of the table, in table order
TableKeys == [i \in 1..num_entries |-> KeyOf(profile_data[i - 1])]

RECURSIVE Distinct(_)
\* a sequence without its repetitions, first occurrences kept in order
Distinct(q) ==
    IF q = <<>> THEN <<>>
    ELSE LET front == Distinct(SubSeq(q, 1, Len(q) - 1))
             x == q[Len(q)]
         IN  IF \E j \in 1..Len(front) : front[j] = x THEN front
             ELSE Append(front, x)

ObservedKeys == Distinct([j \in 1..Len(calls) |-> CallKey(calls[j])])

RECURSIVE SumCounts(_)
SumCounts(recs) ==
    IF recs = <<>> THEN 0
    ELSE recs[Len(recs)].execution_count + SumCounts(SubSeq(recs, 1, Len(recs) - 1))

(***************************************************************************)
(* C1.  No two entries below num_entries hold the same stored              *)
(* (api_name, caller_name) pair, whatever the length of the names passed.  *)
(* The code breaks it: an over-long name never matches its stored prefix,  *)
(* so every call with it creates another entry with the same stored key.   *)
(***************************************************************************)
C1_UniqueKeys ==
    \A i, j \in Used :
        i # j => KeyOf(profile_data[i]) # KeyOf(profile_data[j])

(***************************************************************************)
(* C2.  Once all calls have returned, a key that was called N >= 1 times   *)
(* and was admitted (the table was not full when its first call took the   *)
(* lock) has exactly one entry, and that entry's count is N.  Keys are     *)
(* compared after truncation.  The code breaks it for over-long names.     *)
(***************************************************************************)
Admitted(k) ==
    LET first == CHOOSE j \in CallsFor(k) : \A m \in CallsFor(k) : j <= m
    IN  calls[first].n < MAX_ENTRIES

C2_OneEntryCountN ==
    AllIdle =>
        \A k \in InputKeys :
            (CallsFor(k) # {} /\ Admitted(k)) =>
                /\ Cardinality(EntriesFor(k)) = 1
                /\ \A i \in EntriesFor(k) :
                      profile_data[i].count = Cardinality(CallsFor(k))

(***************************************************************************)
(* C3.  The lookup matches on the truncated input: from every table state  *)
(* log_call(a, c) has the effect of log_call(trunc(a), trunc(c)), and a    *)
(* call whose truncated key is stored never goes on to create an entry.    *)
(* The code compares the stored prefix with the untruncated input.         *)
(***************************************************************************)
C3_LookupUsesTruncatedInput ==
    /\ mutex = 0 =>
          \A k \in InputKeys :
              profiling_log(profile_data, num_entries, k[1], k[2], clock, clock)
                = profiling_log(profile_data, num_entries,
                                TruncKey(k)[1], TruncKey(k)[2], clock, clock)
    /\ \A t \in Threads :
          (mutex = t /\ pc[t] = "create") => EntriesFor(arg[t]) = {}

(***************************************************************************)
(* C4.  num_entries never exceeds the capacity; and a call that took the   *)
(* lock on a full table holding no entry equal to its names leaves         *)
(* num_entries and every entry as they were, and reaches its return with   *)
(* idx = -1 and nothing written to the error stream.                       *)
(***************************************************************************)
PreHolds(k) == \E i \in 0..(pre.n - 1) : KeyOf(pre.pd[i]) = k

C4_CapacityAndSilentDrop ==
    /\ num_entries \in 0..MAX_ENTRIES
    /\ \A t \in Threads :
          (pc[t] = "unlock" /\ pre.n = MAX_ENTRIES /\ ~PreHolds(arg[t])) =>
              /\ profile_data = pre.pd
              /\ num_entries = pre.n
              /\ idx[t] = -1
              /\ errors = 0

\* a call with a key that is new even after truncation was dropped on a full table
C4_Witness ==
    \E t \in Threads :
        /\ pc[t] = "unlock"
        /\ pre.n = MAX_ENTRIES
        /\ ~PreHolds(TruncKey(arg[t]))
        /\ dropped = 1

(***************************************************************************)
(* C5.  On a full table a call whose key (after truncation) already has    *)
(* an entry increments that entry's count by exactly 1 and sets its        *)
(* last_call to the clock reading of the call.  The code breaks it for an  *)
(* over-long name: the lookup misses the entry and the call is dropped.    *)
(***************************************************************************)
C5_FullTableStillCounts ==
    \A t \in Threads :
        (pc[t] = "unlock" /\ pre.n = MAX_ENTRIES /\ PreHolds(TruncKey(arg[t]))) =>
            \E i \in 0..(pre.n - 1) :
                /\ KeyOf(pre.pd[i]) = TruncKey(arg[t])
                /\ profile_data[i].count = pre.pd[i].count + 1
                /\ profile_data[i].last_call = clock

(***************************************************************************)
(* C6.  Whenever no call is in its critical section, the keys of the table *)
(* in table order are the distinct keys observed so far in lock order      *)
(* (after truncation), cut to the first MAX_ENTRIES of them.  The code     *)
(* breaks it: repeated over-long names take several slots.                 *)
(***************************************************************************)
C6_KeysAreFirstDistinct ==
    mutex = 0 =>
        TableKeys = SubSeq(ObservedKeys, 1, Min(Len(ObservedKeys), MAX_ENTRIES))

(***************************************************************************)
(* C7.  At most one thread is between the lock acquisition and the lock    *)
(* release, that thread owns the mutex, and whenever the mutex is free the *)
(* keys and counts of the table are those obtained by running the calls    *)
(* one at a time in lock-acquisition order.                                *)
(***************************************************************************)
RECURSIVE Replay(_)
Replay(q) ==
    IF q = <<>> THEN [pd |-> [i \in Slots |-> ZeroEntry], n |-> 0]
    ELSE LET before == Replay(SubSeq(q, 1, Len(q) - 1))
             c == q[Len(q)]
         IN  profiling_log(before.pd, before.n, c.api, c.caller, 0, 0)

CountsOf(pd, n) ==
    [i \in 1..n |-> [key |-> KeyOf(pd[i - 1]), count |-> pd[i - 1].count]]

C7_Serialized ==
    /\ Cardinality({t \in Threads : InSection(t)}) <= 1
    /\ \A t \in Threads : InSection(t) => mutex = t
    /\ mutex = 0 =>
          CountsOf(profile_data, num_entries)
            = CountsOf(Replay(calls).pd, Replay(calls).n)

\* one thread waits for the lock while the other is about to increment
C7_Witness ==
    \E t, u \in Threads :
        /\ t # u
        /\ pc[t] = "lock"
        /\ mutex = u
        /\ pc[u] = "inc"
        /\ Len(calls) >= 2

(***************************************************************************)
(* C8.  A thread that is not inside profiling_log does not hold the lock   *)
(* (the lock is released before each return), a thread waiting for the     *)
(* lock does not hold it, and under fair scheduling every thread that      *)
(* called profiling_log returns.                                           *)
(***************************************************************************)
C8_LockDiscipline ==
    /\ [](\A t \in Threads : pc[t] \in {"idle", "lock"} => mutex # t)
    /\ \A t \in Threads : (pc[t] # "idle") ~> (pc[t] = "idle")

\* all three paths were taken and every thread is back with the lock free
C8_Witness ==
    /\ AllIdle
    /\ mutex = 0
    /\ dropped >= 1
    /\ num_entries >= 1
    /\ \E i \in Used : profile_data[i].count >= 2

(***************************************************************************)
(* C9.  Whenever no thread holds the lock every entry has                  *)
(* first_call <= last_call; no step changes the first_call of an existing  *)
(* entry, and no step decreases its last_call.                             *)
(***************************************************************************)
C9_StampStep ==
    \A i \in Used :
        /\ profile_data'[i].first_call = profile_data[i].first_call
        /\ profile_data'[i].last_call >= profile_data[i].last_call

C9_Timestamps ==
    /\ [](mutex = 0 =>
            \A i \in Used : profile_data[i].first_call <= profile_data[i].last_call)
    /\ [][C9_StampStep]_vars

\* an entry called again after the clock advanced
C9_Witness ==
    /\ mutex = 0
    /\ \E i \in Used :
          /\ profile_data[i].count >= 2
          /\ profile_data[i].first_call < profile_data[i].last_call

(***************************************************************************)
(* C10.  When the exit handler has run with every call returned before it  *)
(* and none begun since, the report holds one record per table entry in    *)
(* table order, each execution_count is the number of calls made for the   *)
(* record's key, total_dangerous_calls is the sum of the execution_count   *)
(* values and the number of calls that were not dropped, and               *)
(* unique_call_sites is the number of entries.  The code breaks it for an  *)
(* over-long name: two calls give two records with execution_count 1.      *)
(***************************************************************************)
RecordKey(r) == <<r.api_name, r.caller_function>>

C10_ReportMatchesCalls ==
    (hpc = "done" /\ report.opened /\ ~overlap) =>
        /\ Len(report.records) = num_entries
        /\ \A i \in 1..Len(report.records) :
              /\ RecordKey(report.records[i]) = KeyOf(profile_data[i - 1])
              /\ report.records[i].execution_count
                   = Cardinality(CallsFor(RecordKey(report.records[i])))
        /\ report.total = SumCounts(report.records)
        /\ report.total = Len(calls) - dropped
        /\ report.unique = num_entries

(***************************************************************************)
(* C11.  The exit handler is registered exactly once: the first run of     *)
(* profiling_init registers write_profile_data and sets initialized, a     *)
(* later run registers nothing, and exit() calls the handler exactly once. *)
(***************************************************************************)
C11_RegisteredOnce ==
    /\ handlers = (IF initRuns >= 1 THEN 1 ELSE 0)
    /\ initialized = (IF initRuns >= 1 THEN 1 ELSE 0)
    /\ runs <= 1
    /\ hpc = "done" => runs = 1

\* the constructor ran twice and the process has terminated
C11_Witness ==
    /\ initRuns >= 2
    /\ hpc = "done"
    /\ runs = 1

(***************************************************************************)
(* C12.  When fopen fails the handler writes one message to the error      *)
(* stream and returns: that step leaves the report, the console and the    *)
(* Profile Table untouched and ends the handler, and exit() completes with *)
(* the report never opened.                                                *)
(***************************************************************************)
C12_OpenFailed == hpc = "open" /\ errors' = errors + 1

C12_FailureStep ==
    C12_OpenFailed =>
        /\ hpc' = "done"
        /\ report' = report
        /\ console' = console
        /\ profile_data' = profile_data
        /\ num_entries' = num_entries

C12_OpenFailure ==
    /\ [][C12_FailureStep]_vars
    /\ [](errors <= 1)
    /\ [](errors = 1 => (hpc = "done" /\ report = NoReport /\ console = NoConsole))

\* the handler failed to open the file with entries in the table
C12_Witness ==
    /\ hpc = "done"
    /\ errors = 1
    /\ num_entries >= 1

(***************************************************************************)
(* C17.  The report is a consistent snapshot also when threads are still   *)
(* inside profiling_log while the handler runs: total_dangerous_calls is   *)
(* the sum of the execution_count values written, unique_call_sites is the *)
(* number of records written, and no record has execution_count 0 or a     *)
(* last_call that was not yet set (a negative duration).  The code breaks  *)
(* it: write_profile_data reads the table without taking the mutex.        *)
(***************************************************************************)
C17_ConsistentSnapshot ==
    (hpc = "done" /\ report.opened) =>
        /\ report.total = SumCounts(report.records)
        /\ report.unique = Len(report.records)
        /\ \A i \in 1..Len(report.records) :
              /\ report.records[i].execution_count >= 1
              /\ report.records[i].duration_ms >= 0

(***************************************************************************)
(* C19.  Whenever no thread holds the lock every entry has count >= 1; and *)
(* when the handler ran with no call in progress, a non-empty table gives  *)
(* a total above 0 and no percentage of the console summary is a division  *)
(* by zero.                                                                *)
(***************************************************************************)
C19_CountsPositive ==
    /\ mutex = 0 => \A i \in Used : profile_data[i].count >= 1
    /\ (console.printed /\ ~overlap) =>
          /\ console.unique > 0 => console.total > 0
          /\ \A i \in 1..Len(console.lines) :
                console.lines[i].pct # NotANumber

\* the console summary was printed for a non-empty table, no call in progress
C19_Witness ==
    /\ console.printed
    /\ ~overlap
    /\ Len(console.lines) >= 1

(***************************************************************************)
(* C20.  A call changes at most one entry.  Step by step: num_entries      *)
(* stays or grows by 1, an entry in use keeps its key at its index and its *)
(* count stays or grows by 1, and at most one slot is written.  Over a     *)
(* whole call (at its unlock): only the entry matched or created differs   *)
(* from the table at lock time, its count is 1 higher, a matched entry     *)
(* keeps its key and first_call, and num_entries grew by 1 exactly when    *)
(* the entry was created.                                                  *)
(***************************************************************************)
C20_Step ==
    /\ num_entries' \in {num_entries, num_entries + 1}
    /\ \A i \in Used :
          /\ KeyOf(profile_data'[i]) = KeyOf(profile_data[i])
          /\ profile_data'[i].count \in
                {profile_data[i].count, profile_data[i].count + 1}
    /\ Cardinality({i \in Slots : profile_data'[i] # profile_data[i]}) <= 1

C20_Call(t) ==
    LET changed == {i \in Slots : profile_data[i] # pre.pd[i]}
    IN  /\ changed \subseteq {idx[t]}
        /\ num_entries = (IF idx[t] = pre.n THEN pre.n + 1 ELSE pre.n)
        /\ idx[t] >= 0 =>
              profile_data[idx[t]].count = pre.pd[idx[t]].count + 1
        /\ (idx[t] >= 0 /\ idx[t] < pre.n) =>
              /\ KeyOf(profile_data[idx[t]]) = KeyOf(pre.pd[idx[t]])
              /\ profile_data[idx[t]].first_call = pre.pd[idx[t]].first_call

C20_Frame ==
    /\ [][C20_Step]_vars
    /\ [](\A t \in Threads : pc[t] = "unlock" => C20_Call(t))

\* a call matched one of two entries and is about to return
C20_Witness ==
    \E t \in Threads :
        /\ pc[t] = "unlock"
        /\ pre.n >= 2
        /\ idx[t] >= 0
        /\ idx[t] < pre.n

(***************************************************************************)
(* The instrumenter, DangerousAPIPass.cpp.                                 *)
(*                                                                         *)
(* A Module is its list of functions and its list of global strings.  A    *)
(* function is a name and a list of basic blocks; a declaration has no     *)
(* block.  A basic block is a non-empty list of instructions.  An          *)
(* instruction carries an identity (the model of its address, which is     *)
(* what a CallInst* holds), an opcode, the called function (Null for a     *)
(* call through a pointer) and the arguments the model tells apart.        *)
(***************************************************************************)

\* most instructions in the functions of the input Module together
MaxInstrs == 3

\* the functions of the input Module besides the declarations of callees
FuncNames == <<"f", "g">>

\* the name given to getOrInsertFunction
LogFuncName == "profiling_log"

DangerousAPIs == <<"strcpy">>

\* getCalledFunction() of a call through a function pointer
Null == "nullptr"

\* the functions whose name starts with "llvm."
Intrinsics == {"llvm.memcpy"}

isIntrinsic(name) == name \in Intrinsics

\* instructions of the input: a call of the target, a call of a function
\* whose name contains the target's, an indirect call, an intrinsic call,
\* and an instruction that is no call
Kinds ==
    { [op |-> "call", callee |-> "strcpy"],
      [op |-> "call", callee |-> "__strcpy_chk"],
      [op |-> "call", callee |-> Null],
      [op |-> "call", callee |-> "llvm.memcpy"],
      [op |-> "store", callee |-> Null] }

Instr(k, f, b, i) ==
    [id |-> [orig |-> TRUE, at |-> <<f, b, i>>],
     op |-> k.op, callee |-> k.callee, args |-> <<>>]

\* the ways of cutting n instructions into basic blocks
RECURSIVE Compositions(_)
Compositions(n) ==
    IF n = 0 THEN {<<>>}
    ELSE UNION { { <<k>> \o rest : rest \in Compositions(n - k) } : k \in 1..n }

RECURSIVE BodiesOf(_)
BodiesOf(shape) ==
    IF shape = <<>> THEN {<<>>}
    ELSE { <<blk>> \o rest : blk \in [1..Head(shape) -> Kinds],
                              rest \in BodiesOf(Tail(shape)) }

\* the bodies of n instructions; the only one of none, <<>>, is that of a
\* declaration
Bodies(n) == UNION { BodiesOf(shape) : shape \in Compositions(n) }

\* the bodies of k functions with at most n instructions together
RECURSIVE BodyLists(_, _)
BodyLists(k, n) ==
    IF k = 0 THEN {<<>>}
    ELSE UNION { { <<body>> \o rest : body \in Bodies(m),
                                      rest \in BodyLists(k - 1, n - m) } :
                 m \in 0..n }

Declaration(name) == [name |-> name, blocks |-> <<>>]

MakeFunction(f, body) ==
    [name |-> FuncNames[f],
     blocks |-> [b \in 1..Len(body) |->
                    [i \in 1..Len(body[b]) |-> Instr(body[b][i], f, b, i)]]]

\* the input Modules: every function is a declaration or has a body, and
\* the hook may or may not be declared already
Modules ==
    { [funcs |-> [f \in 1..Len(FuncNames) |-> MakeFunction(f, bodies[f])]
                 \o (IF declared THEN <<Declaration(LogFuncName)>> ELSE <<>>),
       globals |-> <<>>] :
      bodies \in BodyLists(Len(FuncNames), MaxInstrs), declared \in BOOLEAN }

isDeclaration(F) == F.blocks = <<>>

\* M.getOrInsertFunction(name, type), line 35
getOrInsertFunction(m, name) ==
    IF \E f \in 1..Len(m.funcs) : m.funcs[f].name = name
    THEN m
    ELSE [m EXCEPT !.funcs = Append(@, Declaration(name))]

\* lines 57-62: the name is one of DangerousAPIs
IsDangerousAny(CalledName) == TRUE

IsDangerous(CalledName) ==
    \E a \in 1..Len(DangerousAPIs) : CalledName = DangerousAPIs[a]

\* lines 49-62: the instruction I is pushed on CallsToInstrument
ToInstrument(I) ==
    /\ I.op = "call"
    /\ I.callee # Null
    /\ ~isIntrinsic(I.callee)
    /\ IsDangerous(I.callee)

\* lines 73-79: the call of the hook built in front of CI inside F
HookCall(CI, F) ==
    [id |-> [orig |-> FALSE, at |-> CI.id.at],
     op |-> "call", callee |-> LogFuncName, args |-> <<CI.callee, F.name>>]

\* position of the instruction with identity id in the block, 0 if none
PositionOf(block, id) ==
    IF \E i \in 1..Len(block) : block[i].id = id
    THEN CHOOSE i \in 1..Len(block) : block[i].id = id
    ELSE 0

InsertAfter(block, id, new) ==
    LET p == PositionOf(block, id)
    IN  IF p = 0 THEN block
        ELSE SubSeq(block, 1, p) \o <<new>> \o SubSeq(block, p + 1, Len(block))

InsertInPlace(block, id, new) ==
    LET p == PositionOf(block, id)
    IN  IF p = 0 THEN block
        ELSE SubSeq(block, 1, p - 1) \o <<new>> \o SubSeq(block, p + 1, Len(block))

\* IRBuilder<> Builder(CI): what is built goes right before CI
InsertBefore(block, id, new) ==
    LET p == PositionOf(block, id)
    IN  IF p = 0 THEN block
        ELSE SubSeq(block, 1, p - 1) \o <<new>> \o SubSeq(block, p, Len(block))

\* the instruction a CallInst* points to
InstrAt(F, id) ==
    LET b == CHOOSE b \in 1..Len(F.blocks) : PositionOf(F.blocks[b], id) # 0
    IN  F.blocks[b][PositionOf(F.blocks[b], id)]

\* the function F, the block BB and the instruction I the loops are at
CurF == M.funcs[fi]

CurI == CurF.blocks[bi][ii]

\* lines 22-38: the locals, and the declaration of the hook
Begin ==
    /\ ppc = "entry"
    /\ Modified' = FALSE
    /\ M' = getOrInsertFunction(M, LogFuncName)
    /\ fi' = 1
    /\ ppc' = "function"
    /\ UNCHANGED <<input, bi, ii, CallsToInstrument, ri, diag, preserved>>
    /\ UNCHANGED runtimeVars

\* lines 41-42: F is a declaration
SkipDeclaration ==
    /\ ppc = "function"
    /\ fi <= Len(M.funcs)
    /\ isDeclaration(CurF)
    /\ fi' = fi + 1
    /\ UNCHANGED <<M, input, ppc, bi, ii, CallsToInstrument, ri, Modified,
                   diag, preserved>>
    /\ UNCHANGED runtimeVars

\* lines 41-48: F has a body; its first instruction is looked at next
EnterFunction ==
    /\ ppc = "function"
    /\ fi <= Len(M.funcs)
    /\ ~isDeclaration(CurF)
    /\ CallsToInstrument' = <<>>
    /\ bi' = 1
    /\ ii' = 1
    /\ ppc' = "scan"
    /\ UNCHANGED <<M, input, fi, ri, Modified, diag, preserved>>
    /\ UNCHANGED runtimeVars

\* lines 48-65: one instruction of the first loop over F
Scan ==
    /\ ppc = "scan"
    /\ CallsToInstrument' =
          IF ToInstrument(CurI) THEN Append(CallsToInstrument, CurI.id)
          ELSE CallsToInstrument
    /\ IF ii < Len(CurF.blocks[bi])
       THEN ii' = ii + 1 /\ UNCHANGED <<bi, ri, ppc>>
       ELSE IF bi < Len(CurF.blocks)
            THEN bi' = bi + 1 /\ ii' = 1 /\ UNCHANGED <<ri, ppc>>
            ELSE ppc' = "rewrite" /\ ri' = 1 /\ UNCHANGED <<bi, ii>>
    /\ UNCHANGED <<M, input, fi, Modified, diag, preserved>>
    /\ UNCHANGED runtimeVars

\* lines 70-84 for the call CallsToInstrument[ri]
Rewritten(setModified) ==
    LET id   == CallsToInstrument[ri]
        CI   == InstrAt(CurF, id)
        hook == HookCall(CI, CurF)
    IN  /\ M' = [M EXCEPT
                   !.funcs[fi].blocks =
                       [b \in 1..Len(@) |-> InsertBefore(@[b], id, hook)],
                   !.globals = @ \o <<CI.callee, CurF.name>>]
        /\ Modified' = (Modified \/ setModified)
        /\ diag' = Append(diag, [api |-> CI.callee, func |-> CurF.name])
        /\ ri' = ri + 1
        /\ UNCHANGED <<input, ppc, fi, bi, ii, CallsToInstrument, preserved>>

RewriteCallUnflagged ==
    /\ ppc = "rewrite"
    /\ ri <= Len(CallsToInstrument)
    /\ Rewritten(FALSE)
    /\ UNCHANGED runtimeVars

\* lines 69-85: one call of CallsToInstrument gets the hook in front of it
RewriteCall ==
    /\ ppc = "rewrite"
    /\ ri <= Len(CallsToInstrument)
    /\ Rewritten(TRUE)
    /\ UNCHANGED runtimeVars

\* line 85 back to line 41: the calls of F are done
LeaveFunction ==
    /\ ppc = "rewrite"
    /\ ri > Len(CallsToInstrument)
    /\ fi' = fi + 1
    /\ ppc' = "function"
    /\ UNCHANGED <<M, input, bi, ii, CallsToInstrument, ri, Modified, diag,
                   preserved>>
    /\ UNCHANGED runtimeVars

\* line 88: no function is left
Return ==
    /\ ppc = "function"
    /\ fi > Len(M.funcs)
    /\ preserved' = IF Modified THEN "none" ELSE "all"
    /\ ppc' = "done"
    /\ UNCHANGED <<M, input, fi, bi, ii, CallsToInstrument, ri, Modified,
                   diag>>
    /\ UNCHANGED runtimeVars

run ==
    \/ Begin
    \/ SkipDeclaration
    \/ EnterFunction
    \/ Scan
    \/ RewriteCall
    \/ LeaveFunction
    \/ Return

(***************************************************************************)
(* The pass run once on a Module: opt -passes=dangerous-api-pass.          *)
(***************************************************************************)
PassInit == RuntimeInit /\ \E m \in Modules : PassEntry(m)

PassNext == run

PassSpec == PassInit /\ [][PassNext]_vars

(***************************************************************************)
(* Vocabulary of the claims about the pass.                                *)
(***************************************************************************)

\* the Target API Set
TargetAPIs == { DangerousAPIs[a] : a \in 1..Len(DangerousAPIs) }

\* a direct call of a Target API
TargetCall(I) == I.op = "call" /\ I.callee \in TargetAPIs

\* a call of the logging hook put in by the pass
IsHook(I) == ~I.id.orig /\ I.op = "call" /\ I.callee = LogFuncName

\* the functions the pass was given, by index; M keeps them at their index
InputFuncs == 1..Len(input.funcs)

\* the positions (b, i) of the instructions of F that satisfy P
Where(F, P(_)) ==
    UNION { { <<b, i>> : i \in { j \in 1..Len(F.blocks[b]) : P(F.blocks[b][j]) } } :
            b \in 1..Len(F.blocks) }

HooksIn(F) == Cardinality(Where(F, IsHook))

TargetCallsIn(F) == Cardinality(Where(F, TargetCall))

\* the block with the hook calls taken out
StripHooks(block) == SelectSeq(block, LAMBDA I : ~IsHook(I))

\* the loops of lines 41-86 are through with function f
PassedFunction(f) == fi > f

\* C13: in a function with a body every direct call of a Target API of
\* the input has, once the function is rewritten, a hook call right in
\* front of it in the same block, carrying the callee's name and the
\* enclosing function's name; the function holds as many hook calls as the
\* input function has such calls; while the function is rewritten the hook
\* calls put in so far are one per recorded call site handled so far; and
\* no recorded call site is a hook call.
C13_OneHookBeforeEachCall ==
    /\ \A k \in 1..Len(CallsToInstrument) : CallsToInstrument[k].orig
    /\ ppc = "rewrite" =>
          /\ HooksIn(CurF) = ri - 1
          /\ Len(CallsToInstrument) = TargetCallsIn(input.funcs[fi])
    /\ \A f \in InputFuncs :
          LET F == input.funcs[f]
              G == M.funcs[f]
          IN  (~isDeclaration(F) /\ PassedFunction(f)) =>
                 /\ Len(G.blocks) = Len(F.blocks)
                 /\ HooksIn(G) = TargetCallsIn(F)
                 /\ \A bp \in Where(F, TargetCall) :
                       LET CI  == F.blocks[bp[1]][bp[2]]
                           out == G.blocks[bp[1]]
                           p   == PositionOf(out, CI.id)
                       IN  /\ p > 1
                           /\ out[p] = CI
                           /\ IsHook(out[p - 1])
                           /\ out[p - 1].args = <<CI.callee, F.name>>

\* the pass has ended on a Module where one function calls a Target API
\* twice and has a third instruction, and now holds two hook calls
C13_Witness ==
    /\ ppc = "done"
    /\ \E f \in InputFuncs :
          /\ TargetCallsIn(input.funcs[f]) = 2
          /\ Cardinality(Where(input.funcs[f], LAMBDA I : TRUE)) = 3
          /\ HooksIn(M.funcs[f]) = 2

\* C14: at every moment of the pass each function the pass was given
\* keeps its name and its blocks, and each block with the hook calls taken
\* out is the block of the input: every original instruction is there,
\* unchanged and in its order, and nothing but hook calls was put in.
C14_Transparent ==
    \A f \in InputFuncs :
        LET F == input.funcs[f]
            G == M.funcs[f]
        IN  /\ G.name = F.name
            /\ Len(G.blocks) = Len(F.blocks)
            /\ \A b \in 1..Len(F.blocks) : StripHooks(G.blocks[b]) = F.blocks[b]

\* the pass has ended and a block of two or more original instructions
\* has grown by a hook call
C14_Witness ==
    /\ ppc = "done"
    /\ \E f \in InputFuncs : \E b \in 1..Len(input.funcs[f].blocks) :
          /\ Len(input.funcs[f].blocks[b]) >= 2
          /\ Len(M.funcs[f].blocks[b]) > Len(input.funcs[f].blocks[b])

\* the number of hook calls in the Module
RECURSIVE HooksUpTo(_)
HooksUpTo(f) == IF f = 0 THEN 0 ELSE HooksUpTo(f - 1) + HooksIn(M.funcs[f])

RewrittenSites == HooksUpTo(Len(M.funcs))

\* C15: the flag is set exactly when a call site has been rewritten, and
\* the pass reports "modified" (nothing preserved) exactly when the flag is
\* set; given a Module whose bodies hold no direct call of a Target API
\* the pass reports "unmodified"; and a function with no such call keeps
\* the body it came with.
C15_ModifiedIffRewritten ==
    /\ Modified <=> RewrittenSites >= 1
    /\ ppc = "done" =>
          /\ preserved = "none" <=> RewrittenSites >= 1
          /\ preserved = "all" <=> RewrittenSites = 0
          /\ (\A f \in InputFuncs : TargetCallsIn(input.funcs[f]) = 0)
                => preserved = "all"
    /\ \A f \in InputFuncs :
          TargetCallsIn(input.funcs[f]) = 0 => M.funcs[f] = input.funcs[f]

\* the pass has ended with "modified" on a Module where one function with
\* a body calls no Target API and another one does
C15_Witness ==
    /\ ppc = "done"
    /\ preserved = "none"
    /\ \E f, g \in InputFuncs :
          /\ ~isDeclaration(input.funcs[f])
          /\ TargetCallsIn(input.funcs[f]) = 0
          /\ TargetCallsIn(input.funcs[g]) = 1

\* an instruction that the claim says is never instrumented
NeverInstrumented(I) ==
    \/ I.op # "call"
    \/ I.callee = Null
    \/ I.callee \in Intrinsics
    \/ I.callee \notin TargetAPIs

\* C16: a hook call stands only right in front of an original direct call
\* of a function that is no intrinsic and whose name is a Target API, and a
\* diagnostic line names only a Target API and a function with a body that
\* calls it; there are as many lines as hook calls; indirect calls,
\* intrinsic calls and calls of other names have no hook call in front of
\* them, and a function that came as a declaration stays as it came.
C16_OnlyExactDirectCalls ==
    /\ \A f \in 1..Len(M.funcs) : \A bp \in Where(M.funcs[f], IsHook) :
          LET block == M.funcs[f].blocks[bp[1]]
          IN  /\ f \in InputFuncs
              /\ ~isDeclaration(input.funcs[f])
              /\ bp[2] < Len(block)
              /\ block[bp[2] + 1].id.orig
              /\ ~NeverInstrumented(block[bp[2] + 1])
    /\ \A f \in 1..Len(M.funcs) :
          \A bp \in Where(M.funcs[f], NeverInstrumented) :
             bp[2] > 1 => ~IsHook(M.funcs[f].blocks[bp[1]][bp[2] - 1])
    /\ Len(diag) = RewrittenSites
    /\ \A d \in 1..Len(diag) :
          /\ diag[d].api \in TargetAPIs
          /\ \E f \in InputFuncs :
                /\ input.funcs[f].name = diag[d].func
                /\ TargetCallsIn(input.funcs[f]) >= 1
    /\ \A f \in InputFuncs :
          isDeclaration(input.funcs[f]) => isDeclaration(M.funcs[f])

\* the pass has ended on a Module where one function is a declaration
\* and the other one holds a call of a Target API, a call of a longer name
\* and an indirect call; one line was written
C16_Witness ==
    /\ ppc = "done"
    /\ Len(diag) = 1
    /\ \E f, g \in InputFuncs :
          /\ isDeclaration(input.funcs[f])
          /\ Where(input.funcs[g], TargetCall) # {}
          /\ Where(input.funcs[g],
                   LAMBDA I : I.op = "call" /\ I.callee = "__strcpy_chk") # {}
          /\ Where(input.funcs[g],
                   LAMBDA I : I.op = "call" /\ I.callee = Null) # {}

\* C18: when the pass reports "unmodified" the Module is the Module it
\* was given: the same functions, declarations and globals.
C18_UnmodifiedIsIdentical ==
    (ppc = "done" /\ preserved = "all") => M = input
====
